---- MODULE Spec2Model ----
(***************************************************************************)
(* Model of static/app.js: the token manager, the persisted queue and hit  *)
(* store, the check of one UPC (processSingleUpc), the user batch          *)
(* (processNewUpcs) and the queue worker (runQueueOnce).                   *)
(*                                                                         *)
(* One action is one macrotask of the browser's event loop: a user event,  *)
(* a timer tick or the arrival of an HTTP response, together with every    *)
(* synchronous continuation and microtask (promise reaction) it triggers.  *)
(* The suspension points are the fetch calls; a response and the reading   *)
(* of its body are one arrival.                                            *)
(*                                                                         *)
(* Dates are instants counted in ticks, TicksPerDay ticks to a UTC day;    *)
(* an ISO date string 'YYYY-MM-DD' is the number of its day.  Date.now()   *)
(* of the token manager is the counter now, in seconds.                    *)
(*                                                                         *)
(* Of a catalog record only the sales-start date is kept, of a playlist    *)
(* answer only the number of lines that matched the release; artist and    *)
(* title are carried through the code unchanged and are left out.          *)
(***************************************************************************)
EXTENDS Integers, Sequences, FiniteSets

\* ------------------------------------------------------------------ bounds
MaxDay == 1
MaxLiveDay == 8
MaxNow == 1
TicksPerDay == 2
MaxBatch == 2
MaxReqs == 2
MaxOps == 2
MaxAuthOps == 1
MaxTokenOps == 1
MaxLines == 1
MaxSerialOps == 3

\* ------------------------------------------------------- program constants
WindowDays == 7
RetryDays == 7
InitialAttempts == 2
Margin == 30
DefaultExpiresIn == 300
NPlatforms == 4

Codes == {"c1", "c2"}
Users == {"u1"}
Workers == {"w1", "w2"}
Procs == Users \cup Workers
ReleaseDays == {-6, 1}
UserExpiresIn == {0, 31}
ServerExpiresIn == {0, 31}

Null == [null |-> TRUE]

Max(a, b) == IF a >= b THEN a ELSE b

\* ------------------------------------------------------------------- dates
\* new Date(`${iso}T00:00:00Z`): midnight UTC of an ISO date
parseDate(d) == d * TicksPerDay

\* date.toISOString().slice(0, 10): the UTC day an instant falls in
isoDate(t) == t \div TicksPerDay

addDays(t, days) == parseDate(isoDate(t) + days)

playlistDate(releaseDate, today) ==
  LET target == addDays(releaseDate, WindowDays)
  IN IF target > today THEN today ELSE target

\* ----------------------------------------------------------- token manager
setTokens(access, refresh, expires_in, t) ==
  [access_token |-> access, refresh_token |-> refresh,
   expires_at |-> t + Max(1, expires_in)]

\* the token counts as good until the second it expires
isExpiredLate(state, t) ==
  IF state = Null \/ state.expires_at = 0 THEN TRUE
  ELSE t >= state.expires_at

isExpired(state, t) ==
  IF state = Null \/ state.expires_at = 0 THEN TRUE
  ELSE t >= state.expires_at - Margin

\* !this.state?.refresh_token
NoRefreshToken(state) == state = Null \/ state.refresh_token = ""

\* the in-flight promise is never reused
JoinsRefreshNever(refreshPromise) == FALSE

\* if (this.refreshPromise) return this.refreshPromise
JoinsRefresh(refreshPromise) == refreshPromise # 0

\* this.state?.access_token && !this.isExpired()
TokenUsable(state, t) ==
  /\ state # Null
  /\ state.access_token # ""
  /\ ~isExpired(state, t)

FreeReq(reqs) ==
  IF \E i \in 1..MaxReqs : i \notin reqs
  THEN CHOOSE i \in 1..MaxReqs : i \notin reqs /\ \A j \in 1..(i - 1) : j \in reqs
  ELSE MaxReqs

\* refresh(), up to the promise it returns: "throw", or the request awaited
refresh(s) ==
  IF NoRefreshToken(s.tokens) THEN [s |-> s, kind |-> "throw", id |-> 0]
  ELSE IF JoinsRefresh(s.refreshPromise)
       THEN [s |-> s, kind |-> "await", id |-> s.refreshPromise]
       ELSE LET id == FreeReq(s.reqs)
            IN [s |-> [s EXCEPT !.refreshPromise = id, !.reqs = @ \cup {id}],
                kind |-> "await", id |-> id]

\* a call of ensureAccessToken as the log of the step keeps it: the
\* credential state and the clock it saw, how it went on ("token": the stored
\* token is returned, "await": a refresh is awaited, "throw") and whether a
\* request was sent to the token endpoint
Ensured(s, t, r) ==
  [op |-> "ensure", state |-> s.tokens, t |-> t, kind |-> r.kind, id |-> r.id,
   sent |-> r.s.reqs # s.reqs, stateAfter |-> r.s.tokens]

\* ensureAccessToken(), up to its first suspension
ensureAccessToken(s, t) ==
  LET r == IF TokenUsable(s.tokens, t) THEN [s |-> s, kind |-> "token", id |-> 0]
           ELSE refresh(s)
  IN [r EXCEPT !.s.tev = Append(@, Ensured(s, t, r))]

\* ------------------------------------------------------------------- store
FindIdx(seq, upc) ==
  IF \E i \in 1..Len(seq) : seq[i].upc = upc
  THEN CHOOSE i \in 1..Len(seq) : seq[i].upc = upc /\ \A j \in 1..(i - 1) : seq[j].upc # upc
  ELSE 0

\* queue.find((item) => item.upc === upc) || null
FindEntry(seq, upc) == IF FindIdx(seq, upc) = 0 THEN Null ELSE seq[FindIdx(seq, upc)]

Upsert(seq, entry) ==
  LET idx == FindIdx(seq, entry.upc)
  IN IF idx > 0 THEN [seq EXCEPT ![idx] = entry] ELSE Append(seq, entry)

\* the entry is pushed without looking for its code
upsertQueuePush(queue, entry) == Append(queue, entry)

upsertQueue(queue, entry) == Upsert(queue, entry)

RECURSIVE FilterOut(_, _)
FilterOut(seq, upc) ==
  IF seq = <<>> THEN <<>>
  ELSE IF Head(seq).upc = upc THEN FilterOut(Tail(seq), upc)
       ELSE <<Head(seq)>> \o FilterOut(Tail(seq), upc)

removeFromQueue(queue, upc) == FilterOut(queue, upc)

recordHit(hits, hit) == Upsert(hits, hit)

InQueue(q, upc) == \E i \in 1..Len(q) : q[i].upc = upc
InHits(h, upc) == \E i \in 1..Len(h) : h[i].upc = upc

\* --------------------------------------------------------------- variables
VARIABLES
  day,            \* the UTC calendar day of the wall clock
  now,            \* Date.now() of the token manager, in seconds
  tokens,         \* TokenManager.state: Null or the credential record
  refreshPromise, \* TokenManager.refreshPromise: 0 (null) or the request awaited
  reqs,           \* the refresh requests to the token endpoint in flight
  waitOrder,      \* the processes awaiting a refresh, in the order they began
  queue,          \* localStorage zd_queue
  hits,           \* localStorage zd_hits
  workerActive,   \* the reentrancy flag of runQueueOnce
  batch,          \* per user, the processNewUpcs call
  scan,           \* per worker invocation, the runQueueOnce call
  chk,            \* per process, its processSingleUpc call
  ops,            \* the submissions, resets and timer ticks still to come
                  \* (-1: any number of them)
  tokOps,         \* the uses of the token form still to come
  lastDay,        \* the day the calendar stops at
  ev,             \* the checks that ended in the last step, in order
  tev,            \* the calls and settlements of the token manager in the
                  \* last step, in order
  polls           \* per code, the rounds of playlist lookups that found no
                  \* placement since its queue entry was created

vars == <<day, now, tokens, refreshPromise, reqs, waitOrder, queue, hits,
          workerActive, batch, scan, chk, ops, tokOps, lastDay, ev, tev, polls>>

IdleChk ==
  [pc |-> "idle", upc |-> "", today |-> 0, existing |-> Null, rel |-> 0,
   found |-> FALSE, waits |-> <<>>, pending |-> 0, lines |-> 0, asked |-> 0,
   authFailed |-> FALSE]

IdleBatch == [pc |-> "idle", upcs |-> <<>>, results |-> <<>>, today |-> 0, err |-> ""]

IdleScan == [pc |-> "idle", due |-> <<>>, i |-> 0, hits |-> <<>>, today |-> 0]

\* the mutable program state as one record, threaded through the code below
Cur ==
  [tokens |-> tokens, refreshPromise |-> refreshPromise, reqs |-> reqs,
   waitOrder |-> waitOrder, queue |-> queue, hits |-> hits,
   workerActive |-> workerActive, batch |-> batch, scan |-> scan, chk |-> chk,
   ev |-> <<>>, tev |-> <<>>, polls |-> polls]

Commit(s0) == \E s \in {s0} :
  /\ tokens' = s.tokens
  /\ refreshPromise' = s.refreshPromise
  /\ reqs' = s.reqs
  /\ waitOrder' = s.waitOrder
  /\ queue' = s.queue
  /\ hits' = s.hits
  /\ workerActive' = s.workerActive
  /\ batch' = s.batch
  /\ scan' = s.scan
  /\ chk' = s.chk
  /\ ev' = s.ev
  /\ tev' = s.tev
  /\ polls' = s.polls

\* what a check that ends leaves behind: its inputs, its outcome and the
\* stored entry and hit of its code at the moment it returns
Outcome(s, p, kind, cause) ==
  LET c == s.chk[p]
  IN [p |-> p, upc |-> c.upc, kind |-> kind, cause |-> cause, today |-> c.today,
      existing |-> c.existing, found |-> c.found, rel |-> c.rel,
      lines |-> c.lines, asked |-> c.asked, authFailed |-> c.authFailed,
      entryAfter |-> FindEntry(s.queue, c.upc),
      hitAfter |-> InHits(s.hits, c.upc), polls |-> s.polls[c.upc]]

\* the count of a code starts again once its entry is gone
pollsSettled(s, upc) ==
  [s EXCEPT !.polls[upc] = IF InQueue(s.queue, upc) THEN @ ELSE 0]

\* the element of a singleton: The({e(x) : x \in {v}}) is e(v), with v
\* computed once
The(S) == CHOOSE x \in S : TRUE

InSeq(seq, x) == \E i \in 1..Len(seq) : seq[i] = x

RECURSIVE Without(_, _)
Without(seq, x) ==
  IF seq = <<>> THEN <<>>
  ELSE IF Head(seq) = x THEN Without(Tail(seq), x)
       ELSE <<Head(seq)>> \o Without(Tail(seq), x)

RECURSIVE CountOf(_, _)
CountOf(seq, x) ==
  IF seq = <<>> THEN 0
  ELSE (IF Head(seq) = x THEN 1 ELSE 0) + CountOf(Tail(seq), x)

\* ------------------------------------------------------------ check engine
RECURSIVE processSingleUpc(_, _, _, _)
RECURSIVE checkThrew(_, _, _)
RECURSIVE checkReturned(_, _, _)
RECURSIVE nextDue(_, _)

\* the worker's finally block
scanFinished(s, w) ==
  [s EXCEPT !.scan[w] = [IdleScan EXCEPT !.pc = "done", !.hits = s.scan[w].hits],
            !.workerActive = FALSE]

\* the for loop of runQueueOnce, at the next due item
nextDue(s0, w) ==
  The({(LET sc == s.scan[w]
    IN IF sc.i < Len(sc.due)
       THEN processSingleUpc([s EXCEPT !.scan[w].i = sc.i + 1], w, sc.due[sc.i + 1], sc.today)
       ELSE scanFinished(s, w))
       : s \in {s0}})

\* the error of a check ends the worker's scan
checkThrewAborts(s, p, cause) ==
  LET s1 == [pollsSettled(s, s.chk[p].upc) EXCEPT
               !.ev = Append(@, Outcome(s, p, "threw", cause)),
               !.chk[p] = IdleChk]
  IN IF p \in Users
     THEN [s1 EXCEPT !.batch[p].pc = "failed", !.batch[p].err = cause,
                     !.batch[p].today = 0]
     ELSE scanFinished(s1, p)

\* processSingleUpc rejects: processNewUpcs rejects with it, runQueueOnce
\* catches it and goes on
checkThrew(s0, p, cause) ==
  The({(LET s1 == [pollsSettled(s, s.chk[p].upc) EXCEPT
                     !.ev = Append(@, Outcome(s, p, "threw", cause)),
                     !.chk[p] = IdleChk]
    IN IF p \in Users
       THEN [s1 EXCEPT !.batch[p].pc = "failed", !.batch[p].err = cause,
                       !.batch[p].today = 0]
       ELSE nextDue(s1, p))
       : s \in {s0}})

\* processSingleUpc returns { hit, note }
checkReturned(s0, p, kind) ==
  The({(LET c == s.chk[p]
        s1 == [pollsSettled(s, c.upc) EXCEPT
                 !.ev = Append(@, Outcome(s, p, kind, "")),
                 !.chk[p] = IdleChk]
    IN IF p \in Users
       THEN LET b == s1.batch[p]
                results == Append(b.results, [upc |-> c.upc, kind |-> kind])
                s2 == [s1 EXCEPT !.batch[p].results = results]
            IN IF Len(results) < Len(b.upcs)
               THEN processSingleUpc(s2, p, b.upcs[Len(results) + 1], b.today)
               ELSE [s2 EXCEPT !.batch[p].pc = "done", !.batch[p].today = 0]
       ELSE nextDue(IF kind = "hit"
                    THEN [s1 EXCEPT !.scan[p].hits = Append(@, c.upc)]
                    ELSE s1, p))
       : s \in {s0}})

\* processSingleUpc up to the catalog request: the queue is read, then
\* fetchAlbum -> authedFetch -> ensureAccessToken
processSingleUpc(s0, p, upc, today) ==
  The({(LET c0 == [IdleChk EXCEPT !.pc = "album", !.upc = upc, !.today = today,
                              !.existing = FindEntry(s.queue, upc)]
        ea == ensureAccessToken(s, now)
    IN CASE ea.kind = "token" -> [ea.s EXCEPT !.chk[p] = c0]
         [] ea.kind = "await" ->
              [ea.s EXCEPT !.chk[p] = [c0 EXCEPT !.waits = <<ea.id>>],
                           !.waitOrder = Append(@, p)]
         [] OTHER ->
              checkThrew([ea.s EXCEPT !.chk[p] = [c0 EXCEPT !.authFailed = TRUE]], p, "auth"))
       : s \in {s0}})

NewEntry(upc, releaseDate, nextCheck, attempts) ==
  [upc |-> upc, release_date |-> isoDate(releaseDate),
   next_check |-> isoDate(nextCheck), attempts_remaining |-> attempts]

\* a release still to come is queued for today
scheduleRecordToday(q, upc, releaseDate, today) ==
  [queue |-> upsertQueue(q, NewEntry(upc, releaseDate, today, InitialAttempts)),
   note |-> releaseDate > today]

\* scheduleRecord: the queue it leaves and whether it returns a note
scheduleRecord(q, upc, releaseDate, today) ==
  IF releaseDate > today
  THEN [queue |-> upsertQueue(q, NewEntry(upc, releaseDate, releaseDate, InitialAttempts)),
        note |-> TRUE]
  ELSE [queue |-> upsertQueue(q, NewEntry(upc, releaseDate, today, InitialAttempts)),
        note |-> FALSE]

\* the hit is recorded and the entry is left in the queue
hitBranchKeepsEntry(s, p) ==
  LET c == s.chk[p]
      hit == [upc |-> c.upc, release_date |-> isoDate(parseDate(c.rel)),
              playlists |-> c.lines]
  IN [s EXCEPT !.hits = recordHit(@, hit)]

\* the hit branch: recordHit, removeFromQueue
hitBranch(s, p) ==
  LET c == s.chk[p]
      hit == [upc |-> c.upc, release_date |-> isoDate(parseDate(c.rel)),
              playlists |-> c.lines]
  IN [s EXCEPT !.hits = recordHit(@, hit), !.queue = removeFromQueue(@, c.upc)]

\* the two comparisons the wrong way round
GivesUpInverted(targetDate, cutoffDate, attemptsLeft) ==
  targetDate < cutoffDate \/ attemptsLeft > 0

\* the attempts left are not looked at
GivesUpByDateOnly(targetDate, cutoffDate, attemptsLeft) ==
  targetDate >= cutoffDate

\* targetDate >= cutoffDate || attemptsLeft <= 0
GivesUp(targetDate, cutoffDate, attemptsLeft) ==
  targetDate >= cutoffDate \/ attemptsLeft <= 0

\* the next check is left on the day of the check
RescheduledSameDay(upc, releaseDate, today, cutoffDate, attemptsLeft) ==
  NewEntry(upc, releaseDate, today, attemptsLeft - 1)

\* the next check is put a week ahead, whatever the cutoff
RescheduledUncapped(upc, releaseDate, today, cutoffDate, attemptsLeft) ==
  NewEntry(upc, releaseDate, addDays(today, RetryDays), attemptsLeft - 1)

\* the entry written when a check is rescheduled
Rescheduled(upc, releaseDate, today, cutoffDate, attemptsLeft) ==
  LET nextCheck == addDays(today, RetryDays)
  IN NewEntry(upc, releaseDate,
              IF nextCheck > cutoffDate THEN cutoffDate ELSE nextCheck,
              attemptsLeft - 1)

\* processSingleUpc after checkPlaylists has resolved
finishPlaylists(s, p) ==
  LET c == s.chk[p]
      releaseDate == parseDate(c.rel)
      targetDate == playlistDate(releaseDate, c.today)
      cutoffDate == addDays(releaseDate, WindowDays)
      record == IF c.existing # Null THEN c.existing
                ELSE NewEntry(c.upc, releaseDate, c.today, InitialAttempts)
      attemptsLeft == record.attempts_remaining
  IN IF c.lines > 0 THEN checkReturned(hitBranch(s, p), p, "hit")
     ELSE IF GivesUp(targetDate, cutoffDate, attemptsLeft)
          THEN checkReturned([s EXCEPT !.queue = removeFromQueue(@, c.upc),
                                       !.polls[c.upc] = @ + 1], p, "expired")
          ELSE checkReturned(
                 [s EXCEPT !.queue = upsertQueue(@,
                      Rescheduled(c.upc, releaseDate, c.today, cutoffDate, attemptsLeft)),
                           !.polls[c.upc] = @ + 1],
                 p, "retry")

playlistsSettled(s0, p) ==
  The({(IF s.chk[p].waits = <<>> /\ s.chk[p].pending = 0 THEN finishPlaylists(s, p) ELSE s)
       : s \in {s0}})

\* checkPlaylists: one fetchPlaylists per platform, each through authedFetch;
\* a lookup whose ensureAccessToken throws is caught and yields no lines
RECURSIVE fanOut(_, _, _)
fanOut(s0, p, k) ==
  The({(IF k = 0 THEN s
    ELSE LET ea == ensureAccessToken(s, now)
         IN CASE ea.kind = "token" ->
                   fanOut([ea.s EXCEPT !.chk[p].pending = @ + 1, !.chk[p].asked = @ + 1], p, k - 1)
              [] ea.kind = "await" ->
                   fanOut([ea.s EXCEPT !.chk[p].waits = Append(@, ea.id),
                                       !.waitOrder = IF InSeq(@, p) THEN @ ELSE Append(@, p)],
                          p, k - 1)
              [] OTHER ->
                   fanOut([ea.s EXCEPT !.chk[p].authFailed = TRUE], p, k - 1))
       : s \in {s0}})

checkPlaylists(s, p) ==
  playlistsSettled(fanOut([s EXCEPT !.chk[p].pc = "pl"], p, NPlatforms), p)

\* fetchAlbum's answers: the request fails or its body does not parse
\* ("neterr"), a non-success status ("notok"), no album ("empty"), an album
\* without a date ("nodate"), an album whose date is the day rel ("album")
AlbumAnswers ==
  {[kind |-> k, rel |-> 0] : k \in {"neterr", "notok", "empty", "nodate"}}
    \cup {[kind |-> "album", rel |-> r] : r \in ReleaseDays}

\* a code the catalog does not know is dropped from the queue
albumArrivesDrops(s, p, a) ==
  LET c == s.chk[p]
      releaseDate == parseDate(a.rel)
      sch == scheduleRecord(s.queue, c.upc, releaseDate, c.today)
      s1 == [s EXCEPT !.chk[p].rel = a.rel, !.chk[p].found = TRUE]
  IN CASE a.kind = "neterr" -> checkThrew(s, p, "net")
       [] a.kind \in {"notok", "empty"} ->
            checkReturned([s EXCEPT !.queue = removeFromQueue(@, c.upc)], p, "notfound")
       [] a.kind = "nodate" -> checkReturned(s, p, "nodate")
       [] OTHER ->
            IF c.existing = Null
            THEN IF sch.note
                 THEN checkReturned([s1 EXCEPT !.queue = sch.queue, !.polls[c.upc] = 0],
                                    p, "deferred")
                 ELSE checkPlaylists([s1 EXCEPT !.queue = sch.queue, !.polls[c.upc] = 0], p)
            ELSE checkPlaylists(s1, p)

\* processSingleUpc from the catalog's answer to its next suspension
albumArrives(s, p, a) ==
  LET c == s.chk[p]
      releaseDate == parseDate(a.rel)
      sch == scheduleRecord(s.queue, c.upc, releaseDate, c.today)
      s1 == [s EXCEPT !.chk[p].rel = a.rel, !.chk[p].found = TRUE]
  IN CASE a.kind = "neterr" -> checkThrew(s, p, "net")
       [] a.kind \in {"notok", "empty"} -> checkReturned(s, p, "notfound")
       [] a.kind = "nodate" -> checkReturned(s, p, "nodate")
       [] OTHER ->
            IF c.existing = Null
            THEN IF sch.note
                 THEN checkReturned([s1 EXCEPT !.queue = sch.queue, !.polls[c.upc] = 0],
                                    p, "deferred")
                 ELSE checkPlaylists([s1 EXCEPT !.queue = sch.queue, !.polls[c.upc] = 0], p)
            ELSE checkPlaylists(s1, p)

\* fetchPlaylists' answers: lines that match, none that match, a non-success
\* status, a failed request or body
PlaylistAnswers == {"match", "nomatch", "notok", "neterr"}

fetchPlaylistsLines(a) == IF a = "match" THEN 1 ELSE 0

RECURSIVE flatLines(_)
flatLines(as) ==
  IF as = <<>> THEN 0 ELSE fetchPlaylistsLines(Head(as)) + flatLines(Tail(as))

\* n answers: m lookups (at most MaxLines) with a matching line, the others
\* failing alike
PlaylistAnswerSeqs(n) ==
  {[i \in 1..n |-> IF i <= m THEN "match" ELSE a] :
     m \in 0..(IF n < MaxLines THEN n ELSE MaxLines), a \in PlaylistAnswers \ {"match"}}

\* the lookups in flight are answered; they touch nothing but their own
\* lines, so their arrivals are taken together
playlistArrives(s, p, as) ==
  playlistsSettled(
    [s EXCEPT !.chk[p].pending = @ - Len(as),
              !.chk[p].lines = @ + flatLines(as)], p)

\* ---------------------------------------------------- the refresh settles
\* the token endpoint's answers: a failed request or non-success status, or
\* a token with an optional refresh_token ("" when absent) and an optional
\* expires_in (0 when absent)
RefreshAnswers ==
  {[ok |-> FALSE, access |-> "", refresh |-> "", expires_in |-> 0]}
    \cup {[ok |-> TRUE, access |-> "sa", refresh |-> r, expires_in |-> e] :
            r \in {"", "sr"}, e \in ServerExpiresIn}

\* the .then callback runs to its end: data.refresh_token || this.state.refresh_token
\* raises a TypeError when no refresh_token came and the state has been cleared
ThenSucceeds(state, a) == a.ok /\ (a.refresh # "" \/ state # Null)

\* a failed refresh leaves the credentials as they were
refreshedStateKeeps(state, a, t) ==
  IF ThenSucceeds(state, a)
  THEN setTokens(a.access,
                 IF a.refresh # "" THEN a.refresh ELSE state.refresh_token,
                 IF a.expires_in # 0 THEN a.expires_in ELSE DefaultExpiresIn, t)
  ELSE state

\* the credential state after the promise chain of refresh() has settled
refreshedState(state, a, t) ==
  IF ThenSucceeds(state, a)
  THEN setTokens(a.access,
                 IF a.refresh # "" THEN a.refresh ELSE state.refresh_token,
                 IF a.expires_in # 0 THEN a.expires_in ELSE DefaultExpiresIn, t)
  ELSE Null

\* a caller's await of refresh() ends, as the log of the step keeps it: with
\* the access_token of the record the promise resolved with, or rejected
Resumed(p, n, ok, value) ==
  [op |-> "resume", p |-> p, n |-> n, ok |-> ok,
   token |-> IF ok THEN value.access_token ELSE ""]

\* the callers awaiting request id resume, in the order they began to wait;
\* value is what the promise resolved with (the record setTokens returned)
RECURSIVE resume(_, _, _, _, _)
resume(s0, ps, id, ok, value) ==
  IF ps = <<>> THEN s0
  ELSE LET p == Head(ps)
           c == s0.chk[p]
           n == CountOf(c.waits, id)
           left == Without(c.waits, id)
           s == [s0 EXCEPT !.tev = Append(@, Resumed(p, n, ok, value))]
           s1 == [s EXCEPT !.chk[p].waits = left,
                           !.waitOrder = IF left = <<>> THEN Without(@, p) ELSE @]
       IN IF n = 0 THEN resume(s0, Tail(ps), id, ok, value)
          ELSE IF c.pc = "album"
               THEN IF ok THEN resume(s1, Tail(ps), id, ok, value)
                    ELSE resume(checkThrew([s1 EXCEPT !.chk[p].authFailed = TRUE], p, "auth"),
                                Tail(ps), id, ok, value)
               ELSE IF ok
                    THEN resume([s1 EXCEPT !.chk[p].pending = @ + n, !.chk[p].asked = @ + n],
                                Tail(ps), id, ok, value)
                    ELSE resume(playlistsSettled([s1 EXCEPT !.chk[p].authFailed = TRUE], p),
                                Tail(ps), id, ok, value)

\* the settlement of a refresh as the log of the step keeps it: the answer,
\* whether the .then callback ran to its end, the credential state before
\* and the callers that were awaiting the request
Settled(s, id, a) ==
  [op |-> "settle", id |-> id, ok |-> a.ok, done |-> ThenSucceeds(s.tokens, a),
   access |-> a.access, before |-> s.tokens,
   waiters |-> {p \in Procs : CountOf(s.chk[p].waits, id) > 0}]

refreshArrives(s, id, a) ==
  LET ok == ThenSucceeds(s.tokens, a)
      value == refreshedState(s.tokens, a, now)
      s1 == [s EXCEPT !.refreshPromise = 0,
                      !.tokens = value,
                      !.reqs = @ \ {id},
                      !.tev = Append(@, Settled(s, id, a))]
  IN resume(s1, s.waitOrder, id, ok, value)

\* ------------------------------------------------------------ queue worker
\* the flag is not looked at
WorkerBusyNever(active) == FALSE

\* if (workerActive) return []
WorkerBusy(active) == active

\* the entries not yet due are taken
RECURSIVE SelectDueInverted(_, _)
SelectDueInverted(q, today) ==
  IF q = <<>> THEN <<>>
  ELSE IF parseDate(Head(q).next_check) > today
       THEN <<Head(q).upc>> \o SelectDueInverted(Tail(q), today)
       ELSE SelectDueInverted(Tail(q), today)

\* getQueue().filter((item) => new Date(`${item.next_check}T00:00:00Z`) <= today)
RECURSIVE SelectDue(_, _)
SelectDue(q, today) ==
  IF q = <<>> THEN <<>>
  ELSE IF parseDate(Head(q).next_check) <= today
       THEN <<Head(q).upc>> \o SelectDue(Tail(q), today)
       ELSE SelectDue(Tail(q), today)

runQueueOnce(s, w, today) ==
  IF WorkerBusy(s.workerActive)
  THEN [s EXCEPT !.scan[w] = [IdleScan EXCEPT !.pc = "done"]]
  ELSE nextDue([s EXCEPT !.workerActive = TRUE,
                         !.scan[w] = [IdleScan EXCEPT !.pc = "run", !.today = today,
                                                      !.due = SelectDue(s.queue, today)]],
               w)

\* ----------------------------------------------------------------- actions
Instants == {parseDate(day) + tod : tod \in 0..(TicksPerDay - 1)}

BatchInputs == UNION {[1..n -> Codes] : n \in 1..MaxBatch}

\* submitUpcs -> processNewUpcs(upcs)
Submit(u) ==
  /\ ops > 0
  /\ ops' = ops - 1
  /\ UNCHANGED <<tokOps, lastDay>>
  /\ batch[u].pc # "run"
  /\ \E upcs \in BatchInputs, today \in Instants :
       Commit(processSingleUpc(
         [Cur EXCEPT !.batch[u] = [IdleBatch EXCEPT !.pc = "run", !.upcs = upcs,
                                                    !.today = today]],
         u, upcs[1], today))
  /\ UNCHANGED <<day, now>>

\* an invocation takes the first slot that is not running
SlotNo(w) == IF w = "w1" THEN 1 ELSE 2

\* startQueueWorker's first call and every tick of its interval
Tick(w) ==
  /\ ops # 0
  /\ ops' = IF ops > 0 THEN ops - 1 ELSE ops
  /\ UNCHANGED <<tokOps, lastDay>>
  /\ scan[w].pc # "run"
  /\ \A v \in Workers : scan[v].pc # "run" => SlotNo(w) <= SlotNo(v)
  /\ \E today \in Instants : Commit(runQueueOnce(Cur, w, today))
  /\ UNCHANGED <<day, now>>

AlbumResponse(p) ==
  /\ UNCHANGED <<ops, tokOps, lastDay>>
  /\ chk[p].pc = "album"
  /\ chk[p].waits = <<>>
  /\ \E a \in AlbumAnswers : Commit(albumArrives(Cur, p, a))
  /\ UNCHANGED <<day, now>>

PlaylistResponse(p) ==
  /\ UNCHANGED <<ops, tokOps, lastDay>>
  /\ chk[p].pc = "pl"
  /\ chk[p].pending > 0
  /\ \E as \in PlaylistAnswerSeqs(chk[p].pending) : Commit(playlistArrives(Cur, p, as))
  /\ UNCHANGED <<day, now>>

RefreshResponse(id) ==
  /\ UNCHANGED <<ops, tokOps, lastDay>>
  /\ id \in reqs
  /\ \E a \in RefreshAnswers : Commit(refreshArrives(Cur, id, a))
  /\ UNCHANGED <<day, now>>

\* saveTokens -> tokenManager.setTokens
SaveTokens ==
  /\ tokOps > 0
  /\ tokOps' = tokOps - 1
  /\ UNCHANGED <<ops, lastDay>>
  /\ \E r \in {"", "ur"}, e \in UserExpiresIn :
       Commit([Cur EXCEPT !.tokens = setTokens("ua", r, e, now)])
  /\ UNCHANGED <<day, now>>

\* clearTokens -> tokenManager.clear
ClearTokens ==
  /\ tokOps > 0
  /\ tokOps' = tokOps - 1
  /\ UNCHANGED <<ops, lastDay>>
  /\ Commit([Cur EXCEPT !.tokens = Null])
  /\ UNCHANGED <<day, now>>

resetData(s) ==
  [s EXCEPT !.queue = <<>>, !.hits = <<>>, !.polls = [c \in Codes |-> 0]]

ResetData ==
  /\ ops > 0
  /\ ops' = ops - 1
  /\ UNCHANGED <<tokOps, lastDay>>
  /\ Commit(resetData(Cur))
  /\ UNCHANGED <<day, now>>

NextDay ==
  /\ day < lastDay
  /\ day' = day + 1
  /\ ev' = <<>>
  /\ tev' = <<>>
  /\ UNCHANGED <<now, tokens, refreshPromise, reqs, waitOrder, queue, hits,
                 workerActive, batch, scan, chk, ops, tokOps, lastDay, polls>>

NextSecond ==
  /\ now < MaxNow
  /\ now' = now + 1
  /\ ev' = <<>>
  /\ tev' = <<>>
  /\ UNCHANGED <<day, tokens, refreshPromise, reqs, waitOrder, queue, hits,
                 workerActive, batch, scan, chk, ops, tokOps, lastDay, polls>>

\* what localStorage may hold when the page is loaded.  zd_tokens: nothing,
\* or credentials saved at second 0 that are good for long or for a second.
\* zd_queue: nothing, or entries earlier sessions wrote: c1, released on day
\* -6 and put off to its cutoff (day 1) by a check on day -6, with one or no
\* attempt left; c2, to be released on day 1 and deferred to that day.
\* the rounds behind a stored entry: one for each attempt it has used up
PollsOf(q) ==
  [c \in Codes |-> IF InQueue(q, c)
                   THEN InitialAttempts - FindEntry(q, c).attempts_remaining
                   ELSE 0]

StoredTokens ==
  {Null, setTokens("ua", "ur", DefaultExpiresIn, 0), setTokens("ua", "ur", Margin + 1, 0)}

StoredEntry(upc, rel, next, attempts) ==
  [upc |-> upc, release_date |-> rel, next_check |-> next,
   attempts_remaining |-> attempts]

StoredQueues ==
  {<<>>,
   <<StoredEntry("c1", -6, 1, 1), StoredEntry("c2", 1, 1, 2)>>,
   <<StoredEntry("c1", -6, 1, 0)>>}

Stored ==
  /\ day = 0
  /\ now = 0
  /\ refreshPromise = 0
  /\ reqs = {}
  /\ waitOrder = <<>>
  /\ hits = <<>>
  /\ workerActive = FALSE
  /\ batch = [u \in Users |-> IdleBatch]
  /\ scan = [w \in Workers |-> IdleScan]
  /\ chk = [p \in Procs |-> IdleChk]
  /\ ev = <<>>
  /\ tev = <<>>

Init ==
  /\ Stored
  /\ tokens \in StoredTokens
  /\ queue = <<>>
  /\ polls = PollsOf(queue)
  /\ ops = MaxAuthOps
  /\ tokOps = MaxTokenOps
  /\ lastDay = MaxDay

\* the page is loaded with credentials that stay good and is left alone by
\* the token form: the check engine, the batch and the worker on their own
InitEngine ==
  /\ Stored
  /\ tokens = setTokens("ua", "ur", DefaultExpiresIn, 0)
  /\ queue \in StoredQueues
  /\ polls = PollsOf(queue)
  /\ ops = MaxOps
  /\ tokOps = 0
  /\ lastDay = MaxDay

\* the check engine, the batch and the worker
EngineNext ==
  \/ \E u \in Users : Submit(u)
  \/ \E w \in Workers : Tick(w)
  \/ \E p \in Procs : AlbumResponse(p)
  \/ \E p \in Procs : PlaylistResponse(p)
  \/ ResetData
  \/ NextDay

\* the credentials: the user's token form, the token endpoint, the clock
TokenNext ==
  \/ \E id \in 1..MaxReqs : RefreshResponse(id)
  \/ SaveTokens
  \/ ClearTokens
  \/ NextSecond

Next == EngineNext \/ TokenNext

\* the whole program
Spec == Init /\ [][Next]_vars

SpecEngine == InitEngine /\ [][EngineNext]_vars

\* the checks of the batch and of the worker one after the other: a batch is
\* submitted only while no scan is under way, and a scan begins only while no
\* batch is
InitSerial ==
  /\ Stored
  /\ tokens = setTokens("ua", "ur", DefaultExpiresIn, 0)
  /\ queue \in StoredQueues
  /\ polls = PollsOf(queue)
  /\ ops = MaxSerialOps
  /\ tokOps = 0
  /\ lastDay = MaxDay

SerialSubmit(u) ==
  /\ \A w \in Workers : scan[w].pc # "run"
  /\ Submit(u)

SerialTick(w) ==
  /\ \A u \in Users : batch[u].pc # "run"
  /\ ~workerActive
  /\ Tick(w)

SerialNext ==
  \/ \E u \in Users : SerialSubmit(u)
  \/ \E w \in Workers : SerialTick(w)
  \/ \E p \in Procs : AlbumResponse(p)
  \/ \E p \in Procs : PlaylistResponse(p)
  \/ NextDay

SpecSerial == InitSerial /\ [][SerialNext]_vars

\* the page is left open with a stored queue and credentials that stay
\* good: the worker's interval keeps ticking, the requests it makes are
\* answered, and the days go by until every window has closed
InitLive ==
  /\ Stored
  /\ tokens = setTokens("ua", "ur", DefaultExpiresIn, 0)
  /\ queue \in StoredQueues
  /\ polls = PollsOf(queue)
  /\ ops = -1
  /\ tokOps = 0
  /\ lastDay = MaxLiveDay

WorkerNext ==
  \/ \E w \in Workers : Tick(w)
  \/ \E p \in Workers : AlbumResponse(p)
  \/ \E p \in Workers : PlaylistResponse(p)
  \/ NextDay

FairSpec ==
  /\ InitLive
  /\ [][WorkerNext]_vars
  /\ WF_vars(\E w \in Workers : Tick(w) /\ ~workerActive)
  /\ \A p \in Workers : WF_vars(AlbumResponse(p))
  /\ \A p \in Workers : WF_vars(PlaylistResponse(p))
  /\ WF_vars(NextDay)


\* ------------------------------------------------------------------ claims
Awaited(p) == {chk[p].waits[i] : i \in 1..Len(chk[p].waits)}

\* C1: at most one refresh request to the token endpoint is in flight, it is
\* the one refreshPromise holds, and every call of ensureAccessToken that is
\* waiting for a refresh waits for that one request (so calls made while the
\* token is expired issue one request and share its outcome).
C1_RefreshDeduplicated ==
  /\ Cardinality(reqs) <= 1
  /\ reqs = IF refreshPromise = 0 THEN {} ELSE {refreshPromise}
  /\ \A p \in Procs : Awaited(p) \subseteq reqs

\* the playlist lookups of one check, called while the token is expired and
\* a refresh token is stored, all wait for the one request in flight
C1_Witness ==
  \E p \in Procs :
    /\ chk[p].pc = "pl"
    /\ Len(chk[p].waits) = NPlatforms
    /\ Cardinality(reqs) = 1

Running == {w \in Workers : scan[w].pc = "run"}

\* C2: at most one runQueueOnce scan is active at any time, and a call of
\* runQueueOnce made while a scan is active returns an empty result at once,
\* starts no check and changes neither the queue nor the hits.
C2_ReentrancyGuard ==
  [][/\ Cardinality(Running') <= 1
     /\ workerActive' <=> Running' # {}
     /\ \A w \in Workers :
          Tick(w) /\ workerActive =>
            /\ scan'[w].pc = "done"
            /\ scan'[w].hits = <<>>
            /\ UNCHANGED <<queue, hits, chk, batch, workerActive>>
            /\ \A v \in Workers \ {w} : scan'[v] = scan[v]]_vars

\* a scan is waiting for an answer and a second call has just returned empty
C2_Witness ==
  /\ workerActive
  /\ scan["w1"].pc = "run"
  /\ chk["w1"].pc # "idle"
  /\ scan["w2"].pc = "done"
  /\ scan["w2"].hits = <<>>

NoDuplicate(seq) ==
  \A i, j \in 1..Len(seq) : i # j => seq[i].upc # seq[j].upc

\* C3: in every reachable state the queue holds at most one entry per code
\* and the hit store at most one hit per code.
C3_UpsertInvariant == NoDuplicate(queue) /\ NoDuplicate(hits)

\* a check has just rewritten the entry of a code that was already queued,
\* beside the entry of another code, with a hit stored
C3_Witness ==
  /\ \E i \in 1..Len(ev) :
       /\ ev[i].kind = "retry"
       /\ ev[i].existing # Null
       /\ ev[i].entryAfter # Null
  /\ Len(queue) = Cardinality(Codes)
  /\ Len(hits) > 0

\* the checks that ended in the last step
Ended == {ev[i] : i \in 1..Len(ev)}

\* the cutoff (release date + 7 days) of the release a check was told of, or
\* of the release date an entry holds, is not after the instant today
CutoffPassed(rel, today) == addDays(parseDate(rel), WindowDays) <= today

\* C4: whenever a check finds placements, its result is a Hit, a Hit with its
\* code is stored and no QueueEntry of its code exists when it returns.
C4_HitResolution ==
  \A e \in Ended :
    e.lines > 0 =>
      /\ e.kind = "hit"
      /\ e.hitAfter
      /\ e.entryAfter = Null
      /\ InHits(hits, e.upc)
      /\ ~InQueue(queue, e.upc)

\* a code that was queued is found in a playlist after its window has
\* closed: the hit is stored and the entry is gone
C4_Witness ==
  \E e \in Ended :
    /\ e.kind = "hit"
    /\ e.existing # Null
    /\ CutoffPassed(e.rel, e.today)
    /\ InHits(hits, e.upc)

\* C5: a check of a code that has no QueueEntry, told of a release date
\* after today, issues no playlist query, returns a deferred note and no
\* Hit, and leaves a QueueEntry with next_check = release date and 2
\* attempts.
C5_DeferredCheck ==
  \A e \in Ended :
    e.found /\ e.existing = Null /\ parseDate(e.rel) > e.today =>
      /\ e.kind = "deferred"
      /\ e.asked = 0
      /\ e.lines = 0
      /\ e.entryAfter = [upc |-> e.upc, release_date |-> e.rel,
                         next_check |-> e.rel, attempts_remaining |-> 2]

C5_Witness ==
  \E e \in Ended :
    /\ e.kind = "deferred"
    /\ e.existing = Null
    /\ e.rel > day
    /\ InQueue(queue, e.upc)

\* C6, as claimed: a check of a code that is queued with no attempt left and
\* whose cutoff has passed removes the entry, returns the expiry note,
\* creates no Hit and writes no entry (of the checks that return a result).
C6_ExpiryAsClaimed ==
  \A e \in Ended :
    (/\ e.kind # "threw"
     /\ e.existing # Null
     /\ e.existing.attempts_remaining = 0
     /\ CutoffPassed(e.existing.release_date, e.today)) =>
      /\ e.kind = "expired"
      /\ e.entryAfter = Null

\* C6, amended: the same, when the catalog returns the release with a date
\* whose cutoff has passed and the playlist lookups return no placements.
C6_Expiry ==
  \A e \in Ended :
    (/\ e.existing # Null
     /\ e.existing.attempts_remaining = 0
     /\ e.found
     /\ CutoffPassed(e.rel, e.today)
     /\ e.lines = 0) =>
      /\ e.kind = "expired"
      /\ e.entryAfter = Null
      /\ ~InQueue(queue, e.upc)

C6_Witness ==
  \E e \in Ended :
    /\ e.kind = "expired"
    /\ e.existing # Null
    /\ e.existing.attempts_remaining = 0
    /\ CutoffPassed(e.rel, e.today)
    /\ e.asked = NPlatforms
    /\ ~InQueue(queue, e.upc)

\* C8: processNewUpcs returns one outcome per submitted code, in submission
\* order, also when catalog or playlist calls of some codes fail: a batch
\* that has ended has returned, with as many results as codes.
C8_BatchComplete ==
  \A u \in Users :
    batch[u].pc \in {"done", "failed"} =>
      /\ batch[u].pc = "done"
      /\ Len(batch[u].results) = Len(batch[u].upcs)
      /\ \A i \in 1..Len(batch[u].upcs) : batch[u].results[i].upc = batch[u].upcs[i]

\* C9: a network or parse failure of the catalog lookup or of a playlist
\* lookup never raises out of the check of a code: a check raises for no
\* other cause than a credential failure.
C9_SoftRemoteFailures ==
  \A e \in Ended : e.kind = "threw" => e.cause = "auth"

\* C10: a credential failure during any remote call of a check, the catalog
\* lookup or a playlist lookup, propagates out of the check as an error: it
\* is not turned into a result that reschedules or expires the entry.
C10_HardCredentialFailures ==
  \A e \in Ended : e.authFailed => e.kind = "threw" /\ e.cause = "auth"

\* the catalog has just failed to return a dated release for code c
LookupFailed(c) ==
  \E e \in Ended : e.upc = c /\ e.kind \in {"notfound", "nodate", "threw"}

\* C7, as claimed: with the worker ticking and the days going by, no entry
\* stays in the queue for ever.
C7_EventuallyRemovedAsClaimed ==
  \A c \in Codes : InQueue(queue, c) ~> ~InQueue(queue, c)

\* C7, amended: no entry stays in the queue for ever unless the catalog
\* lookups of its code go on failing to return a dated release.
C7_EventuallyRemoved ==
  \A c \in Codes : []<>(~InQueue(queue, c) \/ LookupFailed(c))

\* the worker has just removed an entry whose window has closed
C7_Witness ==
  \E e \in Ended :
    /\ e.p \in Workers
    /\ e.kind = "expired"
    /\ e.existing # Null
    /\ ~InQueue(queue, e.upc)

\* the token manager's calls and settlements of the last step
TokenLog == {tev[i] : i \in 1..Len(tev)}

\* C11: when the refresh call fails (a failed request or a non-success
\* status), the credential state is cleared, the in-flight refresh handle is
\* released, and every caller that was waiting for that refresh receives the
\* error.
C11_RefreshFailure ==
  \A e \in TokenLog :
    e.op = "settle" /\ ~e.ok =>
      /\ tokens = Null
      /\ refreshPromise = 0
      /\ e.id \notin reqs
      /\ \A p \in e.waiters :
           /\ e.id \notin Awaited(p)
           /\ \E r \in TokenLog : r.op = "resume" /\ r.p = p /\ ~r.ok
           /\ \/ chk[p].authFailed
              \/ \E o \in Ended : o.p = p /\ o.authFailed

\* a refresh has just failed with credentials stored and a check waiting for
\* it: the credentials are gone and the check has failed
C11_Witness ==
  \E e \in TokenLog :
    /\ e.op = "settle"
    /\ ~e.ok
    /\ e.before # Null
    /\ e.waiters # {}
    /\ tokens = Null
    /\ \E o \in Ended : o.p \in e.waiters /\ o.kind = "threw" /\ o.cause = "auth"

\* C12: when ensureAccessToken needs a refresh and no refresh token is
\* available, it fails with an error, issues no request, and the credential
\* state is cleared afterwards.
C12_NoRefreshToken ==
  \A e \in TokenLog :
    e.op = "ensure" /\ e.kind = "throw" =>
      /\ ~e.sent
      /\ e.stateAfter = Null
      /\ tokens = Null

\* C13: ensureAccessToken returns the stored token, sending no refresh
\* request, if an access token is stored whose expires_at is more than 30
\* seconds after now; otherwise it returns no stored token but goes through
\* refresh(), and the token a caller gets from a refresh is the newly issued
\* one, which is then the stored one.
C13_RefreshCondition ==
  /\ \A e \in TokenLog :
       e.op = "ensure" =>
         IF e.state # Null /\ e.state.access_token # "" /\ e.state.expires_at > e.t + 30
         THEN e.kind = "token" /\ ~e.sent /\ e.stateAfter = e.state
         ELSE e.kind \in {"await", "throw"}
  /\ \A r \in TokenLog :
       r.op = "resume" /\ r.ok =>
         /\ tokens # Null
         /\ r.token = tokens.access_token
         /\ \E e \in TokenLog : e.op = "settle" /\ e.ok /\ e.access = r.token

\* a check whose stored token expired within 30 seconds has waited for a
\* refresh and goes on with the token the endpoint issued
C13_Witness ==
  \E r \in TokenLog :
    /\ r.op = "resume"
    /\ r.ok
    /\ r.token = "sa"
    /\ tokens.access_token = "sa"
    /\ \E e \in TokenLog :
         /\ e.op = "settle"
         /\ e.before # Null
         /\ e.before.access_token = "ua"
         /\ e.before.expires_at = now + 30

\* the checks of process p in a log, in order
EndedBy(log, p) == SelectSeq(log, LAMBDA e : e.p = p)

\* the codes of the checks of a log that returned a Hit, in order
RECURSIVE HitsOf(_)
HitsOf(log) ==
  IF log = <<>> THEN <<>>
  ELSE (IF Head(log).kind = "hit" THEN <<Head(log).upc>> ELSE <<>>) \o HitsOf(Tail(log))

\* C14: within one runQueueOnce scan an error raised by the check of a due
\* entry does not abort the scan: the entries that were due when the scan
\* began are handed to the check one after the other, whatever the checks
\* before them did, the scan ends only after the last of them, and it
\* returns the Hits of the checks that succeeded.
C14_WorkerIsolation ==
  [][\A w \in Workers :
       LET done == EndedBy(ev', w)
           k == Len(done)
           sc == scan[w]
       IN /\ (sc.pc # "run" /\ scan'[w].pc = "run") =>
               /\ scan'[w].due = SelectDue(queue, scan'[w].today)
               /\ \A j \in 1..k : done[j].upc = scan'[w].due[j]
               /\ scan'[w].i = k + 1
               /\ chk'[w].pc # "idle"
               /\ chk'[w].upc = scan'[w].due[k + 1]
               /\ scan'[w].hits = HitsOf(done)
          /\ sc.pc = "run" =>
               /\ \A j \in 1..k : done[j].upc = sc.due[sc.i + j - 1]
               /\ \/ /\ scan'[w].pc = "run"
                     /\ scan'[w].due = sc.due
                     /\ scan'[w].i = sc.i + k
                     /\ chk'[w].pc # "idle"
                     /\ chk'[w].upc = sc.due[sc.i + k]
                     /\ scan'[w].hits = sc.hits \o HitsOf(done)
                  \/ /\ scan'[w].pc = "done"
                     /\ sc.i + k - 1 = Len(sc.due)
                     /\ scan'[w].hits = sc.hits \o HitsOf(done)]_vars

\* the check of the first of two due entries has just raised an error and
\* the scan has gone on to the second
C14_Witness ==
  \E w \in Workers :
    /\ scan[w].pc = "run"
    /\ Len(scan[w].due) = 2
    /\ scan[w].i = 2
    /\ chk[w].pc = "album"
    /\ chk[w].upc = scan[w].due[2]
    /\ \E e \in Ended : e.p = w /\ e.kind = "threw" /\ e.upc = scan[w].due[1]

\* C15: when the catalog returns no release for a code, or a release with
\* no date, the check returns a note and leaves the queue and the hit store
\* exactly as they were, also when the code has a QueueEntry.
C15_NotFoundNoEffect ==
  [][\A i \in 1..Len(ev') :
       ev'[i].kind \in {"notfound", "nodate"} =>
         /\ queue' = queue
         /\ hits' = hits
         /\ ev'[i].entryAfter = FindEntry(queue, ev'[i].upc)
         /\ ev'[i].hitAfter = InHits(hits, ev'[i].upc)]_vars

\* the catalog has just not known a code that is queued, beside a stored
\* hit: the entry is as the check found it
C15_Witness ==
  \E e \in Ended :
    /\ e.kind = "notfound"
    /\ e.existing # Null
    /\ e.entryAfter = e.existing
    /\ Len(hits) > 0

MinOf(a, b) == IF a <= b THEN a ELSE b

\* the attempts a check starts from: those of the entry it read, or 2
AttemptsBefore(e) ==
  IF e.existing # Null THEN e.existing.attempts_remaining ELSE 2

\* the check got the release from the catalog and no placement from the
\* playlist lookups
NoPlacements(e) == e.found /\ e.lines = 0 /\ e.kind \in {"expired", "retry"}

\* C16: when a check finds no placements, with the effective query date
\* min(release date + 7 days, today) and the cutoff release date + 7 days:
\* if the effective query date >= cutoff or attempts_remaining <= 0 the entry
\* is removed; otherwise it is upserted with next_check = min(today + 7
\* days, cutoff) and one attempt less than before, which is never negative.
C16_RetryRule ==
  \A e \in Ended :
    (e.found /\ e.lines = 0 /\ e.kind # "deferred") =>
      LET today == isoDate(e.today)
          cutoff == e.rel + 7
          effective == MinOf(cutoff, today)
      IN IF effective >= cutoff \/ AttemptsBefore(e) <= 0
         THEN e.kind = "expired" /\ e.entryAfter = Null
         ELSE /\ e.kind = "retry"
              /\ e.entryAfter =
                   [upc |-> e.upc, release_date |-> e.rel,
                    next_check |-> MinOf(today + 7, cutoff),
                    attempts_remaining |-> AttemptsBefore(e) - 1]
              /\ e.entryAfter.attempts_remaining >= 0

\* an entry with one attempt left has just been put off to its cutoff, which
\* is less than a week ahead, with no attempt left
C16_Witness ==
  \E e \in Ended :
    /\ NoPlacements(e)
    /\ e.kind = "retry"
    /\ e.existing # Null
    /\ e.existing.attempts_remaining = 1
    /\ e.entryAfter.attempts_remaining = 0
    /\ e.entryAfter.next_check = e.rel + 7
    /\ e.entryAfter.next_check < isoDate(e.today) + 7

\* C17: over checks of one code that do not overlap, at most 3 rounds of
\* playlist lookups that return no placements happen between the creation
\* of the code's entry (2 attempts) and its removal, and the third removes
\* the entry.
C17_BoundedPolling ==
  /\ \A c \in Codes : polls[c] <= 3 /\ (InQueue(queue, c) => polls[c] < 3)
  /\ \A e \in Ended :
       (e.found /\ e.lines = 0 /\ e.kind # "deferred") =>
         /\ e.polls <= 3
         /\ e.polls = 3 => e.kind = "expired" /\ e.entryAfter = Null

\* the third round without a placement has just removed an entry whose
\* window was still open; the code is one no stored entry of which has used
\* an attempt, so all three rounds happened on the way
C17_Witness ==
  \E e \in Ended :
    /\ e.upc = "c2"
    /\ e.polls = 3
    /\ e.kind = "expired"
    /\ e.lines = 0
    /\ e.existing # Null
    /\ e.existing.attempts_remaining = 0
    /\ ~CutoffPassed(e.rel, e.today)
    /\ ~InQueue(queue, e.upc)

\* C18: when a check reschedules a code whose entry is stored, the
\* attempts_remaining it writes is one less than the attempts_remaining
\* stored for the code immediately before the write, also when a batch and
\* a scan check the same code with their requests interleaved.  (The claim
\* says as well that no entry is written for a code whose entry was removed
\* in the meantime.)
C18_NoStaleWrite ==
  [][\A i \in 1..Len(ev') :
       (ev'[i].kind = "retry" /\ InQueue(queue, ev'[i].upc)) =>
         ev'[i].entryAfter.attempts_remaining =
           FindEntry(queue, ev'[i].upc).attempts_remaining - 1]_vars

\* no check of any process is under way
NoCheckInFlight == \A p \in Procs : chk[p].pc = "idle"

\* C19: in every state in which no check is in flight, after any sequence of
\* submissions (re-submissions of a code that has a Hit included) and worker
\* scans, no code has both a Hit and a QueueEntry.
C19_HitOrQueue ==
  NoCheckInFlight => \A c \in Codes : ~(InHits(hits, c) /\ InQueue(queue, c))

\* the instants of the day of an instant
SameDay(t) == {parseDate(isoDate(t)) + tod : tod \in 0..(TicksPerDay - 1)}

\* C20: whenever a check that found no placements reschedules an entry, the
\* next_check it writes is later than the date of the check (its today) and
\* not later than release date + 7 days, so a scan on that day does not take
\* the entry as due.
C20_NotDueSameDay ==
  \A e \in Ended :
    e.kind = "retry" =>
      /\ e.entryAfter.next_check > isoDate(e.today)
      /\ e.entryAfter.next_check <= e.rel + 7
      /\ \A t \in SameDay(e.today) : SelectDue(<<e.entryAfter>>, t) = <<>>

\* a check made late in the day has just put an entry off to the next day,
\* its cutoff
C20_Witness ==
  \E e \in Ended :
    /\ e.kind = "retry"
    /\ e.today = parseDate(isoDate(e.today)) + TicksPerDay - 1
    /\ e.entryAfter.next_check = isoDate(e.today) + 1
    /\ e.entryAfter.next_check = e.rel + 7
    /\ InQueue(queue, e.upc)

\* a refresh request is in flight and the credential state is absent: the
\* refresh was begun with a refresh_token stored (refresh() throws without
\* one) and every settlement releases the handle, so clear() has been called
\* since the request was sent and setTokens has not been called after it
ClearedInFlight == refreshPromise # 0 /\ tokens = Null

\* the step is the settlement of a refresh request
RefreshSettles == \E i \in 1..Len(tev') : tev'[i].op = "settle"

\* C21: if clear() is called while a refresh request is in flight, the
\* credential state is absent after that refresh completes, whether it
\* succeeds or fails, and stays absent until the user calls setTokens: no
\* settlement of a refresh turns an absent credential state into a stored one.
C21_ClearWins ==
  [][/\ (ClearedInFlight /\ RefreshSettles => tokens' = Null)
     /\ (tokens = Null /\ tokens' # Null => ~RefreshSettles /\ tokOps' = tokOps - 1)]_vars

\* the cases of C21 in which the code keeps the erased state erased: the
\* request fails, or the endpoint's answer carries no refresh_token
C21_ClearWinsUnlessReissued ==
  [][ClearedInFlight /\ RefreshSettles /\ tokens' # Null =>
       \E i \in 1..Len(tev') :
         /\ tev'[i].op = "settle"
         /\ tev'[i].ok
         /\ tev'[i].before = Null
         /\ tokens'.refresh_token = "sr"]_vars

====
